---- MODULE Spec2Model ----
(***************************************************************************)
(* Model of the institutional PDF chatbot (chatbot_optimized_0615.py):     *)
(* the chunker, the corpus identifier, the on-disk cache, the index build  *)
(* and the hybrid search.                                                  *)
(***************************************************************************)
EXTENDS Integers, Sequences, FiniteSets, TLC

VARIABLES
    text,        \* smart_chunk_text: the sentences of the input, as sentence kinds
    chunks,      \* smart_chunk_text: the returned list of chunks
    chunkPc,     \* "input" before the call, "done" after it
    now,         \* datetime.now(), in days
    dir,         \* the PDF files of institutional_pdfs/
    cache_files, \* the files of institutional_cache/, by cache path
    session,     \* st.session_state: chatbot_initialized and chatbot
    lastInit,    \* what the last run of initialize_chatbot did
    identified,  \* history: the (directory, identifier) pairs computed so far
    saved_from,  \* history: the directory each cache path was last saved for
    faulty_saves,\* history: the number of saves that stopped part-way
    saved_index, \* history: the chatbot last saved at each cache path, when, and over what
    run,         \* history: the steps of the last run of initialize_chatbot
    argsort_kind,\* how this build's np.argsort orders equal scores
    search       \* the call of hybrid_search of this script run and its result

chunkVars == <<text, chunks, chunkPc>>

cacheVars == <<now, dir, cache_files, session, lastInit, identified, saved_from,
              faulty_saves, saved_index, run>>

searchVars == <<argsort_kind, search>>

vars == <<text, chunks, chunkPc, now, dir, cache_files, session, lastInit,
          identified, saved_from, faulty_saves, saved_index, run, argsort_kind,
          search>>

\* ------------------------------------------------------------------ helpers

Min(a, b) == IF a < b THEN a ELSE b

Max(a, b) == IF a > b THEN a ELSE b

\* s[-n:] of Python for 1 <= n <= len(s)
LastN(s, n) == SubSeq(s, Len(s) - n + 1, Len(s))

RECURSIVE SeqsUpTo(_, _)
SeqsUpTo(S, n) ==
    IF n = 0 THEN {<<>>}
    ELSE LET shorter == SeqsUpTo(S, n - 1)
         IN  shorter \cup {Append(s, x) : s \in {t \in shorter : Len(t) = n - 1}, x \in S}

\* ------------------------------------------------------------------ Config

CHUNK_SIZE == 800
CHUNK_OVERLAP == 150
SEARCH_RESULTS == 13
CACHE_DURATION_DAYS == 90
MAX_RETRIES == 2

\* ------------------------------------------------------------------ chunker
\* A sentence returned by sent_tokenize is modelled by its kind: its length in
\* characters after strip() and its number of words.  "blank" is a sentence
\* that is empty after strip().

MaxSentences == 5

SentenceKinds == {"blank", "short", "wordy", "half", "huge"}

SentLen(kind) ==
    CASE kind = "blank" -> 0
      [] kind = "short" -> 200
      [] kind = "wordy" -> 300
      [] kind = "half"  -> 500
      [] kind = "huge"  -> 900

SentWords(kind) ==
    CASE kind = "blank" -> 0
      [] kind = "short" -> 1
      [] kind = "wordy" -> 40
      [] kind = "half"  -> 3
      [] kind = "huge"  -> 2

Texts == SeqsUpTo(SentenceKinds, MaxSentences)

\* The words of sentence number i of the input: word k of it is <<i, k>>.
WordsOfSentence(txt, i) == [k \in 1..SentWords(txt[i]) |-> <<i, k>>]

\* ' '.join(current_chunk).split(): the words of a list of sentences
RECURSIVE JoinWords(_, _)
JoinWords(txt, current_chunk) ==
    IF current_chunk = <<>> THEN <<>>
    ELSE WordsOfSentence(txt, Head(current_chunk)) \o JoinWords(txt, Tail(current_chunk))

\* sum(len(s) for s in current_chunk)
RECURSIVE SumLen(_, _)
SumLen(txt, current_chunk) ==
    IF current_chunk = <<>> THEN 0
    ELSE SentLen(txt[Head(current_chunk)]) + SumLen(txt, Tail(current_chunk))

\* len(' '.join(current_chunk)): the sentences and one space between two
JoinLen(txt, current_chunk) ==
    IF current_chunk = <<>> THEN 0
    ELSE SumLen(txt, current_chunk) + (Len(current_chunk) - 1)

\* chunk['text'].split(): a chunk's text is its overlap prefix, then its core
TextWords(txt, chunk) == chunk.prefix \o JoinWords(txt, chunk.core)

OverlapWordsFromCore(txt, chunkList) ==
    IF chunkList # <<>> /\ CHUNK_OVERLAP > 0
    THEN LET prev_chunk_words == JoinWords(txt, chunkList[Len(chunkList)].core)
         IN  LastN(prev_chunk_words,
                   Min(CHUNK_OVERLAP \div 5, Len(prev_chunk_words)))
    ELSE <<>>

\* lines 274-277 and 300-303: the overlap words taken from chunks[-1]
OverlapWords(txt, chunkList) ==
    IF chunkList # <<>> /\ CHUNK_OVERLAP > 0
    THEN LET prev_chunk_words == TextWords(txt, chunkList[Len(chunkList)])
         IN  LastN(prev_chunk_words,
                   Min(CHUNK_OVERLAP \div 5, Len(prev_chunk_words)))
    ELSE <<>>

\* lines 271-283 and 299-309: close the running chunk and append it
EmitChunk(txt, chunkList, current_chunk) ==
    Append(chunkList,
           [core     |-> current_chunk,
            prefix   |-> OverlapWords(txt, chunkList),
            chunk_id |-> Len(chunkList)])

StartNewChunkWithoutSeeds(current_chunk, sentence) == <<sentence>>

StartNewChunkSeedsOne(current_chunk, sentence) ==
    LastN(current_chunk, Min(1, Len(current_chunk))) \o <<sentence>>

StartNewChunkDropsTrigger(current_chunk, sentence) ==
    LastN(current_chunk, Min(2, Len(current_chunk)))

\* lines 286-292: the running chunk that follows a split
StartNewChunk(current_chunk, sentence) ==
    IF CHUNK_OVERLAP > 0
    THEN LastN(current_chunk, Min(2, Len(current_chunk))) \o <<sentence>>
    ELSE <<sentence>>

MustSplitIgnoresSentence(current_length, sentence_length, current_chunk) ==
    current_length > CHUNK_SIZE /\ current_chunk # <<>>

\* line 270: the condition that closes the running chunk
MustSplit(current_length, sentence_length, current_chunk) ==
    current_length + sentence_length > CHUNK_SIZE /\ current_chunk # <<>>

\* lines 263-295: the loop over the sentences, from sentence number i on
RECURSIVE ChunkLoop(_, _, _, _, _)
ChunkLoop(txt, i, chunkList, current_chunk, current_length) ==
    IF i > Len(txt)
    THEN [chunks |-> chunkList, current_chunk |-> current_chunk]
    ELSE IF SentLen(txt[i]) = 0
    THEN ChunkLoop(txt, i + 1, chunkList, current_chunk, current_length)
    ELSE IF MustSplit(current_length, SentLen(txt[i]), current_chunk)
    THEN LET next_chunk == StartNewChunk(current_chunk, i)
         IN  ChunkLoop(txt, i + 1, EmitChunk(txt, chunkList, current_chunk),
                       next_chunk,
                       IF CHUNK_OVERLAP > 0 THEN SumLen(txt, next_chunk)
                                            ELSE SentLen(txt[i]))
    ELSE ChunkLoop(txt, i + 1, chunkList, Append(current_chunk, i),
                   current_length + SentLen(txt[i]))

\* lines 251-311
smart_chunk_text(txt) ==
    LET loop == ChunkLoop(txt, 1, <<>>, <<>>, 0)
    IN  IF loop.current_chunk # <<>>
        THEN EmitChunk(txt, loop.chunks, loop.current_chunk)
        ELSE loop.chunks

ChunkInit ==
    /\ text \in Texts
    /\ chunks = <<>>
    /\ chunkPc = "input"

ChunkIdle ==
    /\ text = <<>>
    /\ chunks = <<>>
    /\ chunkPc = "idle"

CallSmartChunkText ==
    /\ chunkPc = "input"
    /\ chunks' = smart_chunk_text(text)
    /\ chunkPc' = "done"
    /\ UNCHANGED text
    /\ UNCHANGED <<cacheVars, searchVars>>

\* ------------------------------------------------------------------ strings
\* A string is the sequence of its characters.

DigitChars == <<"0", "1", "2", "3", "4", "5", "6", "7", "8", "9">>

\* str(n) of a non-negative int
RECURSIVE Str(_)
Str(n) == IF n < 10 THEN <<DigitChars[n + 1]>>
          ELSE Str(n \div 10) \o <<DigitChars[(n % 10) + 1]>>

\* str(x) of a float holding a whole number of seconds: "5.0"
StrFloat(n) == Str(n) \o <<".", "0">>

\* ord(c) of the characters that occur in the modelled file names
CharCode(c) ==
    CASE c = "-" -> 45
      [] c = "." -> 46
      [] c = "0" -> 48
      [] c = "1" -> 49
      [] c = "2" -> 50
      [] c = "a" -> 97
      [] c = "b" -> 98
      [] c = "d" -> 100
      [] c = "f" -> 102
      [] c = "p" -> 112
      [] c = "|" -> 124

\* s < t of Python strings
RECURSIVE StrLess(_, _)
StrLess(s, t) ==
    IF s = <<>> THEN t # <<>>
    ELSE IF t = <<>> THEN FALSE
    ELSE IF Head(s) = Head(t) THEN StrLess(Tail(s), Tail(t))
    ELSE CharCode(Head(s)) < CharCode(Head(t))

\* sep.join(parts)
RECURSIVE Join(_, _)
Join(sep, parts) ==
    IF parts = <<>> THEN <<>>
    ELSE IF Len(parts) = 1 THEN parts[1]
    ELSE parts[1] \o sep \o Join(sep, Tail(parts))

\* the sequences that list every element of S once: the orders glob.glob may
\* return the directory in
Listings(S) ==
    {l \in [1..Cardinality(S) -> S] : \A i, j \in 1..Cardinality(S) : l[i] = l[j] => i = j}

\* ------------------------------------------------------------------ corpus directory
\* A file of institutional_pdfs/ is [name, st_size, st_mtime]; the directory
\* is a set of files with distinct names.

NameA == <<"a", ".", "p", "d", "f">>
NameB == <<"b", ".", "p", "d", "f">>
\* the file name "a.pdf-1-1.0|b.pdf"
NameAB == NameA \o <<"-", "1", "-", "1", ".", "0", "|">> \o NameB

FileNames == {NameA, NameB, NameAB}

FileAttrs == {<<1, 1>>, <<1, 2>>, <<2, 1>>}

PdfFile(n, attr) == [name |-> n, st_size |-> attr[1], st_mtime |-> attr[2]]

\* every directory of one or two files over FileNames
Snapshots ==
    UNION {{{PdfFile(n, attrs[n]) : n \in names} : attrs \in [names -> FileAttrs]} :
              names \in {ns \in SUBSET FileNames : Cardinality(ns) \in {1, 2}}}

EmptyDir == {}
DirAB == {PdfFile(NameA, <<1, 1>>), PdfFile(NameB, <<1, 1>>)}

\* sorted(pdf_files): every path has the same directory prefix, so the paths
\* sort as the file names do
RECURSIVE SortedFiles(_)
SortedFiles(files) ==
    IF files = {} THEN <<>>
    ELSE LET first == CHOOSE f \in files :
                          \A g \in files \ {f} : StrLess(f.name, g.name)
         IN  <<first>> \o SortedFiles(files \ {first})

\* line 562
FileStat(f) == f.name \o <<"-">> \o Str(f.st_size) \o <<"-">> \o StrFloat(f.st_mtime)

\* hashlib.sha256(...).hexdigest() and hashlib.md5(...).hexdigest(), taken to be
\* free of collisions: the digest stands for the string that was hashed
Sha256(s) == [sha256_of |-> s]
Md5(s) == [md5_of |-> s]

\* lines 558-564: the identifier of the listing pdf_files (a sequence of files)
Identifier(pdf_files) ==
    LET sorted == SortedFiles({pdf_files[i] : i \in 1..Len(pdf_files)})
    IN  Sha256(Join(<<"|">>, [i \in 1..Len(sorted) |-> FileStat(sorted[i])]))

\* lines 121-124
get_cache_path(identifier) == Md5(identifier)

\* ------------------------------------------------------------------ documents and index
\* A chunk of the index is [source, chunk_id].  The text of a document is not
\* modelled here, only the number of chunks smart_chunk_text makes of it.
\* A list of chunks is always the chunks of some documents in some order, and
\* is held in the state as that sequence of document names: ChunkList(docs)
\* stands for AllChunks(docs).

BATCH_SIZE == 32
TFIDF_MIN_DF == 2
TFIDF_MAX_DF_PERCENT == 80

ChunkCount(name) ==
    CASE name = NameA  -> 3
      [] name = NameB  -> 30
      [] name = NameAB -> 3

\* lines 337-339: the chunks of one document
DocChunks(name) == [i \in 1..ChunkCount(name) |-> [source |-> name, chunk_id |-> i - 1]]

\* lines 337-339: the chunks of pdf_contents, a sequence of file names
RECURSIVE AllChunks(_)
AllChunks(pdf_contents) ==
    IF pdf_contents = <<>> THEN <<>>
    ELSE DocChunks(Head(pdf_contents)) \o AllChunks(Tail(pdf_contents))

ChunkList(docs) == [docs |-> docs]

NoChunks == ChunkList(<<>>)

\* the chunks a chunk list stands for
Rows(chunkList) == AllChunks(chunkList.docs)

\* len(text_chunks)
RECURSIVE CountChunks(_)
CountChunks(docs) ==
    IF docs = <<>> THEN 0 ELSE ChunkCount(Head(docs)) + CountChunks(Tail(docs))

NumRows(chunkList) == CountChunks(chunkList.docs)

Sources(chunkList) == {chunkList.docs[i] : i \in 1..Len(chunkList.docs)}

\* None, and the values of the index attributes.  A row of chunk_embeddings
\* or of tfidf_matrix is the chunk it was computed from; a fitted vectorizer
\* is known by the documents its vocabulary was fitted on.
NoTensor == [is_none |-> TRUE, rows |-> NoChunks]
Tensor(rows) == [is_none |-> FALSE, rows |-> rows]
NoVectorizer == [is_none |-> TRUE, vocabulary |-> {}]
Vectorizer(vocabulary) == [is_none |-> FALSE, vocabulary |-> vocabulary]
NoMatrix == [is_none |-> TRUE, rows |-> NoChunks, vocabulary |-> {}, format |-> "none"]
\* line 328: fit_transform gives a scipy sparse matrix
Matrix(rows, vocabulary) ==
    [is_none |-> FALSE, rows |-> rows, vocabulary |-> vocabulary, format |-> "csr"]
\* line 198: np.load gives the dense array that toarray() made at line 175
DenseMatrix(rows, vocabulary) ==
    [is_none |-> FALSE, rows |-> rows, vocabulary |-> vocabulary, format |-> "ndarray"]

\* lines 57-62: the attributes of a new InstitutionalPDFChatbot
NewChatbot ==
    [pdf_contents     |-> <<>>,
     text_chunks      |-> NoChunks,
     chunk_embeddings |-> NoTensor,
     tfidf_vectorizer |-> NoVectorizer,
     tfidf_matrix     |-> NoMatrix,
     \* the indices of the dicts of text_chunks that have score fields
     chunk_score_fields |-> {}]

\* lines 320-328: TfidfVectorizer(min_df=2, max_df=0.8).fit_transform raises
\* ValueError when max_df * n_docs < min_df.  The chunk texts are taken to
\* share enough terms for some to survive the pruning.
TfidfFitRaises(text_chunks) ==
    TFIDF_MAX_DF_PERCENT * NumRows(text_chunks) < TFIDF_MIN_DF * 100

\* lines 313-328: [raised, chatbot]
create_tfidf_index(bot) ==
    IF NumRows(bot.text_chunks) = 0 THEN [raised |-> FALSE, chatbot |-> bot]
    ELSE IF TfidfFitRaises(bot.text_chunks) THEN [raised |-> TRUE, chatbot |-> bot]
    ELSE [raised  |-> FALSE,
          chatbot |-> [bot EXCEPT
              !.tfidf_vectorizer = Vectorizer(Sources(bot.text_chunks)),
              !.tfidf_matrix = Matrix(bot.text_chunks, Sources(bot.text_chunks))]]

\* line 349: the number of batches of n chunk texts
NumBatches(n) == (n + BATCH_SIZE - 1) \div BATCH_SIZE

\* the number of calls of encode that fail for batch number b
FailingCalls(failures, b) == IF b \in DOMAIN failures THEN failures[b] ELSE 0

\* no call of encode fails
NoFailures == <<>>

\* every call of encode for batch number b fails, every other call succeeds
FailsAt(b) == [x \in {b} |-> MAX_RETRIES]

EncodeBatchRetriesOnceMore(attempt, failing) ==
    IF failing > MAX_RETRIES THEN [raised |-> TRUE, calls |-> MAX_RETRIES + 1]
    ELSE [raised |-> FALSE, calls |-> failing + 1]

\* lines 353-369: the calls of encode for one batch, the first `failing` of
\* which raise: [raised, calls]
RECURSIVE EncodeBatch(_, _)
EncodeBatch(attempt, failing) ==
    IF attempt >= MAX_RETRIES THEN [raised |-> FALSE, calls |-> attempt]
    ELSE IF attempt >= failing THEN [raised |-> FALSE, calls |-> attempt + 1]
    ELSE IF attempt = MAX_RETRIES - 1 THEN [raised |-> TRUE, calls |-> attempt + 1]
    ELSE EncodeBatch(attempt + 1, failing)

\* lines 349-369: the loop over the batches from batch number b on:
\* [raised, encode_calls], encode_calls[b] the calls of encode made for batch b
RECURSIVE EncodeBatches(_, _, _, _)
EncodeBatches(b, numBatches, failures, encode_calls) ==
    IF b > numBatches THEN [raised |-> FALSE, encode_calls |-> encode_calls]
    ELSE LET batch == EncodeBatch(0, FailingCalls(failures, b))
         IN  IF batch.raised
             THEN [raised |-> TRUE, encode_calls |-> Append(encode_calls, batch.calls)]
             ELSE EncodeBatches(b + 1, numBatches, failures,
                                Append(encode_calls, batch.calls))

\* lines 330-380: [result, chatbot, encode_calls]; failures gives, for the
\* batches that have failing calls of encode, how many of their calls fail
create_chunks_and_embeddings(bot, failures) ==
    LET text_chunks == ChunkList(bot.pdf_contents)
        chunked == [bot EXCEPT !.text_chunks = text_chunks, !.chunk_score_fields = {}]
        encoding == EncodeBatches(1, NumBatches(NumRows(text_chunks)), failures, <<>>)
    IN  IF bot.pdf_contents = <<>>
        THEN [result |-> FALSE, chatbot |-> chunked, encode_calls |-> <<>>]
        ELSE IF NumRows(text_chunks) = 0
        THEN [result |-> FALSE, chatbot |-> chunked, encode_calls |-> <<>>]
        ELSE IF encoding.raised
        THEN [result |-> FALSE, chatbot |-> chunked, encode_calls |-> encoding.encode_calls]
        ELSE LET embedded == [chunked EXCEPT !.chunk_embeddings = Tensor(text_chunks)]
                 fit == create_tfidf_index(embedded)
             IN  [result |-> ~fit.raised, chatbot |-> fit.chatbot,
                  encode_calls |-> encoding.encode_calls]

\* ------------------------------------------------------------------ cache files
\* A cache file is absent, readable ("ok", with its content) or unreadable
\* ("corrupt": a write that stopped after the file was opened).

Absent == [state |-> "absent", data |-> <<>>]
Corrupt == [state |-> "corrupt", data |-> <<>>]
Written(data) == [state |-> "ok", data |-> <<data>>]

NoEntry ==
    [meta             |-> Absent,
     chunks           |-> Absent,
     embeddings       |-> Absent,
     tfidf_vectorizer |-> Absent,
     tfidf_matrix     |-> Absent]

EntryAt(files, cache_path) ==
    IF cache_path \in DOMAIN files THEN files[cache_path] ELSE NoEntry

Artifacts == <<"meta", "chunks", "embeddings", "tfidf_vectorizer", "tfidf_matrix">>

NoFault == [at |-> 0, mode |-> "none"]

\* the ways a save can stop: at artifact number `at`, before the file is
\* opened (the file stays as it was) or while it is written (it is left
\* unreadable)
SaveFaults ==
    {NoFault} \cup {[at |-> j, mode |-> m] : j \in 1..Len(Artifacts), m \in {"open", "write"}}

IsCacheValidIncludesLastDay(entry, clock) ==
    /\ entry.meta.state = "ok"
    /\ "cached_at" \in DOMAIN entry.meta.data[1]
    /\ clock - entry.meta.data[1].cached_at <= CACHE_DURATION_DAYS

IsCacheValidIgnoresCachedAt(entry, clock) == entry.meta.state = "ok"

\* lines 126-142, on the files of one cache path at time clock (in days)
is_cache_valid(entry, clock) ==
    /\ entry.meta.state = "ok"
    /\ "cached_at" \in DOMAIN entry.meta.data[1]
    /\ clock - entry.meta.data[1].cached_at < CACHE_DURATION_DAYS

\* the cached_at values of the metadata file of an entry: one or none
CachedAt(entry) ==
    IF entry.meta.state = "ok" /\ "cached_at" \in DOMAIN entry.meta.data[1]
    THEN {entry.meta.data[1].cached_at}
    ELSE {}

\* one write of save_to_cache: artifact number j gets `data` unless the save
\* has stopped at or before it
WriteArtifact(entry, j, data, fault) ==
    IF fault.at = 0 \/ j < fault.at
    THEN [entry EXCEPT ![Artifacts[j]] = Written(data)]
    ELSE IF j = fault.at /\ fault.mode = "write"
    THEN [entry EXCEPT ![Artifacts[j]] = Corrupt]
    ELSE entry

\* a save that leaves a metadata file alone that is already there
SaveToCacheKeepsMetadata(entry, identifier, bot, clock, fault) ==
    LET metadata == [identifier   |-> identifier,
                     cached_at    |-> clock,
                     files_count  |-> Len(bot.pdf_contents),
                     chunks_count |-> NumRows(bot.text_chunks)]
        e1 == IF entry.meta.state = "ok" THEN entry
              ELSE WriteArtifact(entry, 1, metadata, fault)
        e2 == WriteArtifact(e1, 2, bot.text_chunks, fault)
        e3 == IF bot.chunk_embeddings.is_none THEN e2
              ELSE WriteArtifact(e2, 3, bot.chunk_embeddings.rows, fault)
        e4 == IF bot.tfidf_vectorizer.is_none THEN e3
              ELSE WriteArtifact(e3, 4, bot.tfidf_vectorizer.vocabulary, fault)
        e5 == IF bot.tfidf_vectorizer.is_none THEN e4
              ELSE WriteArtifact(e4, 5, [rows       |-> bot.tfidf_matrix.rows,
                                         vocabulary |-> bot.tfidf_matrix.vocabulary], fault)
    IN  e5

\* lines 144-178: the files of the cache path after the call
save_to_cache(entry, identifier, bot, clock, fault) ==
    LET metadata == [identifier   |-> identifier,
                     cached_at    |-> clock,
                     files_count  |-> Len(bot.pdf_contents),
                     chunks_count |-> NumRows(bot.text_chunks)]
        e1 == WriteArtifact(entry, 1, metadata, fault)
        e2 == WriteArtifact(e1, 2, bot.text_chunks, fault)
        e3 == IF bot.chunk_embeddings.is_none THEN e2
              ELSE WriteArtifact(e2, 3, bot.chunk_embeddings.rows, fault)
        e4 == IF bot.tfidf_vectorizer.is_none THEN e3
              ELSE WriteArtifact(e3, 4, bot.tfidf_vectorizer.vocabulary, fault)
        e5 == IF bot.tfidf_vectorizer.is_none THEN e4
              ELSE WriteArtifact(e4, 5, [rows       |-> bot.tfidf_matrix.rows,
                                         vocabulary |-> bot.tfidf_matrix.vocabulary], fault)
    IN  e5

LoadTfidfRequiresFiles(entry, bot) ==
    IF entry.tfidf_vectorizer.state = "ok" /\ entry.tfidf_matrix.state = "ok"
    THEN [raised  |-> FALSE,
          chatbot |-> [bot EXCEPT
              !.tfidf_vectorizer = Vectorizer(entry.tfidf_vectorizer.data[1]),
              !.tfidf_matrix = DenseMatrix(entry.tfidf_matrix.data[1].rows,
                                           entry.tfidf_matrix.data[1].vocabulary)]]
    ELSE [raised |-> TRUE, chatbot |-> bot]

\* lines 193-200: [raised, chatbot]; a missing file is answered by a new fit,
\* an unreadable one raises
LoadTfidf(entry, bot) ==
    IF entry.tfidf_vectorizer.state = "absent" THEN create_tfidf_index(bot)
    ELSE IF entry.tfidf_vectorizer.state = "corrupt" THEN [raised |-> TRUE, chatbot |-> bot]
    ELSE LET withVectorizer ==
                 [bot EXCEPT !.tfidf_vectorizer = Vectorizer(entry.tfidf_vectorizer.data[1])]
         IN  IF entry.tfidf_matrix.state = "absent" THEN create_tfidf_index(withVectorizer)
             ELSE IF entry.tfidf_matrix.state = "corrupt"
             THEN [raised |-> TRUE, chatbot |-> withVectorizer]
             ELSE [raised  |-> FALSE,
                   chatbot |-> [withVectorizer EXCEPT
                       !.tfidf_matrix = DenseMatrix(entry.tfidf_matrix.data[1].rows,
                                                    entry.tfidf_matrix.data[1].vocabulary)]]

\* a load that reads the embedding matrix with its documents in reverse order
LoadFromCacheReversesRows(entry, bot, clock) ==
    IF ~is_cache_valid(entry, clock) THEN [result |-> FALSE, chatbot |-> bot]
    ELSE IF entry.chunks.state # "ok" THEN [result |-> FALSE, chatbot |-> bot]
    ELSE LET withChunks == [bot EXCEPT !.text_chunks = entry.chunks.data[1],
                                             !.chunk_score_fields = {}]
         IN  IF entry.embeddings.state # "ok"
             THEN [result |-> FALSE, chatbot |-> withChunks]
             ELSE LET docs == entry.embeddings.data[1].docs
                      withEmbeddings ==
                          [withChunks EXCEPT
                              !.chunk_embeddings =
                                  Tensor(ChunkList([i \in 1..Len(docs) |->
                                                       docs[Len(docs) + 1 - i]]))]
                      tfidf == LoadTfidf(entry, withEmbeddings)
                  IN  [result |-> ~tfidf.raised, chatbot |-> tfidf.chatbot]

\* lines 180-204: [result, chatbot]
load_from_cache(entry, bot, clock) ==
    IF ~is_cache_valid(entry, clock) THEN [result |-> FALSE, chatbot |-> bot]
    ELSE IF entry.chunks.state # "ok" THEN [result |-> FALSE, chatbot |-> bot]
    ELSE LET withChunks == [bot EXCEPT !.text_chunks = entry.chunks.data[1],
                                             !.chunk_score_fields = {}]
         IN  IF entry.embeddings.state # "ok"
             THEN [result |-> FALSE, chatbot |-> withChunks]
             ELSE LET withEmbeddings ==
                          [withChunks EXCEPT
                              !.chunk_embeddings = Tensor(entry.embeddings.data[1])]
                      tfidf == LoadTfidf(entry, withEmbeddings)
                  IN  [result |-> ~tfidf.raised, chatbot |-> tfidf.chatbot]

\* ------------------------------------------------------------------ hybrid_search
\* Scores are exact: a cosine similarity c is held as 100 * c, and a combined
\* score s as 20000 * s, which is
\* SEMANTIC_WEIGHT * (100 c + 100) + 2 * KEYWORD_WEIGHT * 100 k
\* for the weights and the floor in hundredths.

SEMANTIC_WEIGHT == 70
KEYWORD_WEIGHT == 30
RELEVANCE_FLOOR == 15

\* line 436: 0.15 as a combined score
Floor == RELEVANCE_FLOOR * 200

\* The embedding model and the vectorizer are known by the scores they give:
\* chunks of one semantic class have the same cosine similarity to a question,
\* chunks of one keyword class the same TF-IDF similarity.
SemClass(chunk) == chunk.chunk_id % 2

KwClass(chunk) == (chunk.chunk_id \div 2) % 2

CosValues == {-100, -58, 0, 100}

KwValues == {0, 1, 50}

\* a question: whether it is the empty string, and the similarities the model
\* and the vectorizer give it.  The empty string has no term, so its TF-IDF
\* vector is zero and so is its similarity to every chunk.
Queries ==
    {q \in [empty : BOOLEAN, cos : [0..1 -> CosValues], kw : [0..1 -> KwValues]] :
        q.empty => \A c \in 0..1 : q.kw[c] = 0}

\* numpy's default sort is not stable: which way equal scores come out of
\* np.argsort is a property of the build
ArgsortKinds == {"stable", "reversed_ties"}

\* lines 389-401: the first `failures` calls of encode raise.  returned says
\* that line 400 returned [], encoded that question_embedding was assigned.
RECURSIVE EncodeQuestion(_, _)
EncodeQuestion(attempt, failures) ==
    IF attempt >= MAX_RETRIES
    THEN [encoded |-> FALSE, returned |-> FALSE, attempts |-> attempt]
    ELSE IF attempt >= failures
    THEN [encoded |-> TRUE, returned |-> FALSE, attempts |-> attempt + 1]
    ELSE IF attempt = MAX_RETRIES - 1
    THEN [encoded |-> FALSE, returned |-> TRUE, attempts |-> attempt + 1]
    ELSE EncodeQuestion(attempt + 1, failures)

\* line 404: util.cos_sim(question_embedding, self.chunk_embeddings)[0]
SemanticScores(bot, q) ==
    LET embedded == Rows(bot.chunk_embeddings.rows)
    IN  [r \in 1..Len(embedded) |-> q.cos[SemClass(embedded[r])]]

\* lines 407-411: [raised, scores]; cosine_similarity raises when the question
\* vector and the matrix differ in their number of columns, which a vectorizer
\* and a matrix fitted on different documents are taken to do
KeywordScores(bot, q) ==
    IF ~bot.tfidf_vectorizer.is_none /\ ~bot.tfidf_matrix.is_none
    THEN IF bot.tfidf_vectorizer.vocabulary # bot.tfidf_matrix.vocabulary
         THEN [raised |-> TRUE, scores |-> <<>>]
         ELSE LET indexed == Rows(bot.tfidf_matrix.rows)
              IN  [raised |-> FALSE,
                   scores |-> [r \in 1..Len(indexed) |-> q.kw[KwClass(indexed[r])]]]
    ELSE [raised |-> FALSE, scores |-> [r \in 1..NumRows(bot.text_chunks) |-> 0]]

\* lines 414-421: [raised, scores]; numpy adds arrays of equal length, or
\* stretches one of length 1, and raises otherwise
CombinedScores(semantic_scores, keyword_scores) ==
    LET ns == Len(semantic_scores)
        nk == Len(keyword_scores)
        At(scores, r) == IF Len(scores) = 1 THEN scores[1] ELSE scores[r]
    IN  IF ns = nk \/ ns = 1 \/ nk = 1
        THEN [raised |-> FALSE,
              scores |-> [r \in 1..Max(ns, nk) |->
                             SEMANTIC_WEIGHT * (At(semantic_scores, r) + 100)
                                 + 2 * KEYWORD_WEIGHT * At(keyword_scores, r)]]
        ELSE [raised |-> TRUE, scores |-> <<>>]

\* whether np.argsort puts index i before index j
SortsBefore(scores, kind, i, j) ==
    \/ scores[i] < scores[j]
    \/ scores[i] = scores[j] /\ (IF kind = "stable" THEN i < j ELSE i > j)

RECURSIVE InsertIndex(_, _, _, _)
InsertIndex(scores, kind, sorted, i) ==
    IF sorted = <<>> THEN <<i>>
    ELSE IF SortsBefore(scores, kind, i, Head(sorted)) THEN <<i>> \o sorted
    ELSE <<Head(sorted)>> \o InsertIndex(scores, kind, Tail(sorted), i)

RECURSIVE ArgsortFrom(_, _, _)
ArgsortFrom(scores, kind, i) ==
    IF i > Len(scores) THEN <<>>
    ELSE InsertIndex(scores, kind, ArgsortFrom(scores, kind, i + 1), i)

\* np.argsort(scores): the indices in ascending order of score
Argsort(scores, kind) == ArgsortFrom(scores, kind, 1)

\* s[::-1]
Reverse(s) == [i \in 1..Len(s) |-> s[Len(s) + 1 - i]]

\* line 424: np.argsort(combined_scores)[-Config.SEARCH_RESULTS:][::-1]
TopIndices(combined_scores, kind) ==
    LET ascending == Argsort(combined_scores, kind)
    IN  Reverse(LastN(ascending, Min(SEARCH_RESULTS, Len(ascending))))

KeepsFloorScore(chunk) == chunk.combined_score >= Floor

\* line 436
ClearsFloor(chunk) == chunk.combined_score > Floor

\* the call ends in `return []` before anything is scored
NothingReturned(attempts) ==
    [raised |-> FALSE, encoded |-> FALSE, attempts |-> attempts,
     top_indices |-> <<>>, combined_scores |-> <<>>, returned |-> <<>>]

\* an exception is raised inside the try block
Raised(attempts, encoded) ==
    [raised |-> TRUE, encoded |-> encoded, attempts |-> attempts,
     top_indices |-> <<>>, combined_scores |-> <<>>, returned |-> <<>>]

\* lines 403-438, once the question is encoded.  Index r stands for numpy's
\* r - 1; a returned chunk carries its index in text_chunks.
ScoreAndRank(bot, q, kind, attempts) ==
    LET text_chunks == Rows(bot.text_chunks)
        semantic_scores == SemanticScores(bot, q)
        keyword == KeywordScores(bot, q)
        combined == CombinedScores(semantic_scores, keyword.scores)
        top_indices == TopIndices(combined.scores, kind)
        relevant_chunks ==
            [n \in 1..Len(top_indices) |->
                [index          |-> top_indices[n],
                 source         |-> text_chunks[top_indices[n]].source,
                 chunk_id       |-> text_chunks[top_indices[n]].chunk_id,
                 semantic_score |-> semantic_scores[top_indices[n]],
                 keyword_score  |-> keyword.scores[top_indices[n]],
                 combined_score |-> combined.scores[top_indices[n]]]]
    IN  IF keyword.raised THEN Raised(attempts, TRUE)
        ELSE IF combined.raised THEN Raised(attempts, TRUE)
        ELSE IF \E n \in 1..Len(top_indices) :
                    \/ top_indices[n] > Len(text_chunks)
                    \/ top_indices[n] > Len(semantic_scores)
                    \/ top_indices[n] > Len(keyword.scores)
        THEN Raised(attempts, TRUE)
        ELSE [raised |-> FALSE, encoded |-> TRUE, attempts |-> attempts,
              top_indices |-> top_indices,
              combined_scores |-> combined.scores,
              returned |-> SelectSeq(relevant_chunks, ClearsFloor)]

CatchNothing(outcome) ==
    [escaped |-> outcome.raised] @@ outcome

\* lines 387, 440-441: an exception raised inside the try block is answered
\* by the empty list
CatchAll(outcome) ==
    IF outcome.raised
    THEN [escaped |-> FALSE] @@ [outcome EXCEPT !.returned = <<>>]
    ELSE [escaped |-> FALSE] @@ outcome

\* lines 382-441: what the call returns (returned), whether an exception
\* leaves it (escaped), and what it did on the way
hybrid_search(bot, q, failures, kind) ==
    IF bot.chunk_embeddings.is_none \/ NumRows(bot.text_chunks) = 0
    THEN [escaped |-> FALSE] @@ NothingReturned(0)
    ELSE LET encoding == EncodeQuestion(0, failures)
         IN  CatchAll(IF encoding.returned THEN NothingReturned(encoding.attempts)
                      ELSE IF ~encoding.encoded THEN Raised(encoding.attempts, FALSE)
                      ELSE ScoreAndRank(bot, q, kind, encoding.attempts))

\* a loop that writes the scores into the dicts of self.text_chunks
StoredScoreFieldsWithoutCopy(score_fields, top_indices) ==
    score_fields \cup {top_indices[n] : n \in DOMAIN top_indices}

\* lines 426-431: chunk = self.text_chunks[idx].copy() gets the three scores;
\* the stored dicts that have score fields after the loop
StoredScoreFields(score_fields, top_indices) == score_fields

\* lines 382-441: the chatbot after the call
IndexAfterSearch(bot, q, failures, kind) ==
    LET outcome == hybrid_search(bot, q, failures, kind)
    IN  IF outcome.encoded /\ ~outcome.raised
        THEN [bot EXCEPT !.chunk_score_fields =
                             StoredScoreFields(@, outcome.top_indices)]
        ELSE bot

NoSearch == [called |-> FALSE]

\* lines 671-683: the user asks a question and the script run searches for it
HybridSearch ==
    /\ session.has_chatbot
    /\ search = NoSearch
    /\ \E q \in Queries, failures \in 0..MAX_RETRIES :
          /\ search' = [called |-> TRUE, question |-> q, failures |-> failures]
                           @@ hybrid_search(session.chatbot, q, failures, argsort_kind)
          /\ session' = [session EXCEPT
                             !.chatbot = IndexAfterSearch(@, q, failures, argsort_kind)]
    /\ UNCHANGED <<chunkVars, now, dir, cache_files, lastInit, identified, saved_from,
                   faulty_saves, saved_index, run, argsort_kind>>

\* the script run ends: relevant_chunks is a local of main
Rerun ==
    /\ search # NoSearch
    /\ search' = NoSearch
    /\ UNCHANGED <<chunkVars, cacheVars, argsort_kind>>

SearchIdle ==
    /\ argsort_kind = "stable"
    /\ search = NoSearch

\* ------------------------------------------------------------------ initialize_chatbot

MaxNow == 90
ClockSteps == {45}
MaxFaultySaves == 1

NoIdentifier == Sha256(<<>>)

NoSession == [chatbot_initialized |-> "absent", has_chatbot |-> FALSE, chatbot |-> NewChatbot]

\* a test of the value of the key instead of its presence
RunsBodyUnlessInitialized(state) == state.chatbot_initialized # "True"

\* line 521: 'chatbot_initialized' not in st.session_state
RunsBody(state) == state.chatbot_initialized = "absent"

Observed(outcome, identifier) ==
    [outcome |-> outcome, identifier |-> identifier, dir |-> dir, at |-> now]

\* what one attempt to load the primary model can do: return the model, raise
\* requests.exceptions.HTTPError with or without "429" in its text, or raise
\* another exception
LoadOutcomes == {"ok", "http_429", "http_error", "error"}

FallbackOutcomes == {"ok", "error"}

\* what the attempts to load the models would do, attempt by attempt
ModelLoads ==
    [primary : [1..MAX_RETRIES -> LoadOutcomes], fallback : FallbackOutcomes]

LoadsAtOnce == [primary |-> [a \in 1..MAX_RETRIES |-> "ok"], fallback |-> "ok"]

NeverLoads == [primary |-> [a \in 1..MAX_RETRIES |-> "error"], fallback |-> "error"]

NoModel == [model |-> "none", primary_attempts |-> 0, fallback_attempts |-> 0]

\* lines 79-119: the loop from attempt number `attempt` (0-based) on:
\* [model, primary_attempts, fallback_attempts]
RECURSIVE LoadEmbeddingModel(_, _)
LoadEmbeddingModel(attempt, loads) ==
    IF attempt >= MAX_RETRIES
    THEN [model |-> "none", primary_attempts |-> attempt, fallback_attempts |-> 0]
    ELSE LET outcome == loads.primary[attempt + 1]
         IN  CASE outcome = "ok" ->
                    [model |-> "primary", primary_attempts |-> attempt + 1,
                     fallback_attempts |-> 0]
               [] outcome = "http_429" -> LoadEmbeddingModel(attempt + 1, loads)
               [] outcome = "http_error" ->
                    [model |-> "none", primary_attempts |-> attempt + 1,
                     fallback_attempts |-> 0]
               [] outcome = "error" ->
                    IF attempt = MAX_RETRIES - 1
                    THEN [model |-> IF loads.fallback = "ok" THEN "fallback" ELSE "none",
                          primary_attempts |-> attempt + 1, fallback_attempts |-> 1]
                    ELSE LoadEmbeddingModel(attempt + 1, loads)

\* lines 76-119.  st.cache_resource keeps the value returned for later runs of
\* the same server process; a run of a new process calls the function again.
load_embedding_model(loads) == LoadEmbeddingModel(0, loads)

ConstructorNeverStops(loaded) == FALSE

\* lines 69-74: st.stop() ends the script run when no model was returned
ConstructorStops(loaded) == loaded.model = "none"

MIN_TEXT_LENGTH == 100

\* what extract_text_from_pdf can do with one file: raise while the file is
\* opened or read, or get a text of so many characters after the cleaning
ExtractionOutcomes ==
    {[raised |-> TRUE, length |-> 0]}
        \cup {[raised |-> FALSE, length |-> n] : n \in {MIN_TEXT_LENGTH, MIN_TEXT_LENGTH + 1}}

Raises == [raised |-> TRUE, length |-> 0]

LongText == [raised |-> FALSE, length |-> MIN_TEXT_LENGTH + 1]

KeepsAnyText(outcome) == ~outcome.raised

\* lines 208-233: whether the file gets an entry in pdf_contents
KeepsText(outcome) == ~outcome.raised /\ outcome.length > MIN_TEXT_LENGTH

\* the files of an extraction that get an entry in pdf_contents
Readable(extraction) == {f \in DOMAIN extraction : KeepsText(extraction[f])}

\* lines 245-247: pdf_contents after the loop, the readable files in glob's order
Extracted(pdf_files, readable) ==
    LET kept == SelectSeq(pdf_files, LAMBDA f : f \in readable)
    IN  [i \in 1..Len(kept) |-> kept[i].name]

\* lines 235-249: what pdf_contents can be after load_institutional_pdfs, glob
\* listing the directory in any order and the files of one of readableSets
\* giving more than 100 characters of text
PdfContents(readableSets) ==
    {Extracted(pdf_files, readable) : pdf_files \in Listings(dir), readable \in readableSets}

\* a step of a run of initialize_chatbot: the method called and what it returned
Step(call, result) == [call |-> call, result |-> result]

NoRun ==
    [model |-> NoModel, steps |-> <<>>, extraction |-> <<>>, pdf_contents |-> <<>>,
     encode_calls |-> <<>>, chunk_embeddings |-> NoTensor]

\* the run so far: the constructor returned and load_from_cache was called
RunLoaded(loaded, result) ==
    [model |-> loaded,
     steps |-> <<Step("_load_embedding_model", "model"),
                 Step("load_from_cache", IF result THEN "True" ELSE "False")>>,
     extraction |-> <<>>, pdf_contents |-> <<>>, encode_calls |-> <<>>,
     chunk_embeddings |-> NoTensor]

\* the run so far, then load_institutional_pdfs: what the extraction of each
\* file did and pdf_contents as the call left it
RunExtracted(soFar, extraction, pdf_contents) ==
    [soFar EXCEPT
        !.steps = Append(@, Step("load_institutional_pdfs",
                                 IF Len(pdf_contents) > 0 THEN "True" ELSE "False")),
        !.extraction = extraction,
        !.pdf_contents = pdf_contents]

\* the run so far, then create_chunks_and_embeddings: how often encode was
\* called for each batch, and chunk_embeddings as the call left it
RunBuilt(soFar, built) ==
    [soFar EXCEPT
        !.steps = Append(@, Step("create_chunks_and_embeddings",
                                 IF built.result THEN "True" ELSE "False")),
        !.encode_calls = built.encode_calls,
        !.chunk_embeddings = built.chatbot.chunk_embeddings]

\* the run so far, then save_to_cache
RunSaved(soFar) == [soFar EXCEPT !.steps = Append(@, Step("save_to_cache", "None"))]

\* lines 572-574, 582-584: the build succeeded
SaveAndKeep(identifier, bot, fault, soFar) ==
    LET cache_path == get_cache_path(identifier)
    IN  /\ cache_files' =
              [p \in DOMAIN cache_files \cup {cache_path} |->
                  IF p = cache_path
                  THEN save_to_cache(EntryAt(cache_files, cache_path),
                                     identifier, bot, now, fault)
                  ELSE cache_files[p]]
        /\ saved_from' =
              [p \in DOMAIN saved_from \cup {cache_path} |->
                  IF p = cache_path THEN dir ELSE saved_from[p]]
        /\ saved_index' =
              [p \in DOMAIN saved_index \cup {cache_path} |->
                  IF p = cache_path
                  THEN [chatbot  |-> bot, at |-> now, complete |-> fault = NoFault,
                        replaced |-> CachedAt(EntryAt(cache_files, cache_path))]
                  ELSE saved_index[p]]
        /\ faulty_saves' = IF fault = NoFault THEN faulty_saves ELSE faulty_saves + 1
        /\ session' = [chatbot_initialized |-> "True", has_chatbot |-> TRUE,
                       chatbot |-> bot]
        /\ lastInit' = Observed("built", identifier)
        /\ run' = RunSaved(soFar)

\* lines 570-580: the cache gave nothing, bot is the chatbot load_from_cache left
Rebuild(identifier, bot, extractions, batchFailures, faults, soFar) ==
    \E pdf_files \in Listings(dir), extraction \in extractions :
        LET pdf_contents == Extracted(pdf_files, Readable(extraction))
            extracted == RunExtracted(soFar, extraction, pdf_contents)
        IN  IF pdf_contents = <<>>
            THEN \* lines 578-580
                 /\ lastInit' = Observed("load_pdfs_failed", identifier)
                 /\ run' = extracted
                 /\ UNCHANGED <<cache_files, session, saved_from, saved_index,
                                faulty_saves>>
            ELSE \E built \in {create_chunks_and_embeddings(
                                     [bot EXCEPT !.pdf_contents = pdf_contents], failures) :
                                 failures \in batchFailures} :
                        IF ~built.result
                        THEN \* lines 575-577
                             /\ lastInit' = Observed("build_failed", identifier)
                             /\ run' = RunBuilt(extracted, built)
                             /\ UNCHANGED <<cache_files, session, saved_from, saved_index,
                                            faulty_saves>>
                        ELSE \E fault \in faults :
                                SaveAndKeep(identifier, built.chatbot, fault,
                                            RunBuilt(extracted, built))

\* lines 519-586, run while 'chatbot_initialized' is not in st.session_state.
\*   modelLoads     what the attempts to load the embedding model may do
\*   extractions    what extract_text_from_pdf may do with each file
\*   batchFailures  which calls of encode may fail during the build
\*   faults         where save_to_cache may stop
Initialize(modelLoads, extractions, batchFailures, faults) ==
    /\ RunsBody(session)
    /\ UNCHANGED <<now, dir, chunkVars, searchVars>>
    /\ \E loaded \in {load_embedding_model(loads) : loads \in modelLoads},
          listing \in Listings(dir) :
            IF ConstructorStops(loaded)
            THEN \* line 74: st.stop()
                 /\ lastInit' = Observed("stopped", NoIdentifier)
                 /\ run' = [NoRun EXCEPT
                               !.model = loaded,
                               !.steps = <<Step("_load_embedding_model", "None")>>]
                 /\ UNCHANGED <<cache_files, session, identified, saved_from,
                                saved_index, faulty_saves>>
            ELSE IF listing = <<>>
            THEN \* lines 526-555
                 /\ session' = [chatbot_initialized |-> "False", has_chatbot |-> FALSE,
                                chatbot |-> NewChatbot]
                 /\ lastInit' = Observed("no_pdfs", NoIdentifier)
                 /\ run' = [NoRun EXCEPT
                               !.model = loaded,
                               !.steps = <<Step("_load_embedding_model", "model")>>]
                 /\ UNCHANGED <<cache_files, identified, saved_from, saved_index,
                                faulty_saves>>
            ELSE LET identifier == Identifier(listing)
                     found == load_from_cache(
                                  EntryAt(cache_files, get_cache_path(identifier)),
                                  NewChatbot, now)
                 IN  /\ identified' =
                            identified \cup {[dir |-> dir, identifier |-> identifier]}
                     /\ IF found.result
                        THEN \* lines 567-568, 582-584
                             /\ session' = [chatbot_initialized |-> "True",
                                            has_chatbot |-> TRUE,
                                            chatbot |-> found.chatbot]
                             /\ lastInit' = Observed("loaded", identifier)
                             /\ run' = RunLoaded(loaded, TRUE)
                             /\ UNCHANGED <<cache_files, saved_from, saved_index,
                                            faulty_saves>>
                        ELSE Rebuild(identifier, found.chatbot, extractions,
                                     batchFailures, faults, RunLoaded(loaded, FALSE))

\* the names of the files of the directory
DirNames == [i \in 1..Len(SortedFiles(dir)) |-> SortedFiles(dir)[i].name]

\* initialize_chatbot where the model may fail to load, documents may fail to
\* extract, a batch may fail to encode and the save may stop part-way
InitializeChatbot ==
    Initialize({LoadsAtOnce, NeverLoads},
               [dir -> {Raises, LongText}],
               {NoFailures} \cup {FailsAt(b) : b \in 1..NumBatches(CountChunks(DirNames))},
               IF faulty_saves < MaxFaultySaves THEN SaveFaults ELSE {NoFault})

\* initialize_chatbot where nothing fails
InitializeChatbotNoFaults ==
    Initialize({LoadsAtOnce}, {[f \in dir |-> LongText]}, {NoFailures}, {NoFault})

\* initialize_chatbot with every course of the attempts to load the model,
\* of the extraction of each file and of the calls of encode; every save runs
\* to its end
InitializeChatbotInDetail ==
    Initialize(ModelLoads,
               [dir -> ExtractionOutcomes],
               [1..NumBatches(CountChunks(DirNames)) -> 0..MAX_RETRIES],
               {NoFault})

\* lines 521, 586: a script run of a session that has the key; the call does
\* nothing but return st.session_state.chatbot
ReturnStored ==
    /\ ~RunsBody(session)
    /\ lastInit' = [outcome |-> "returned_stored", identifier |-> NoIdentifier,
                    dir |-> {}, at |-> now]
    /\ run' = NoRun
    /\ UNCHANGED <<now, dir, cache_files, session, identified, saved_from, faulty_saves,
                   saved_index, chunkVars, searchVars>>

\* a new browser session or a restart of the server: st.session_state is empty
NewSession ==
    /\ session # NoSession
    /\ session' = NoSession
    /\ UNCHANGED <<now, dir, cache_files, lastInit, identified, saved_from, faulty_saves,
                   saved_index, run, chunkVars, searchVars>>

\* time passes
Tick ==
    /\ \E days \in ClockSteps :
          /\ now + days <= MaxNow
          /\ now' = now + days
    /\ UNCHANGED <<dir, cache_files, session, lastInit, identified, saved_from,
                   faulty_saves, saved_index, run, chunkVars, searchVars>>

LifecycleDirs == {EmptyDir, DirAB}

\* the administrator fills or empties institutional_pdfs/
ChangeCorpus ==
    /\ \E d \in LifecycleDirs \ {dir} : dir' = d
    /\ UNCHANGED <<now, cache_files, session, lastInit, identified, saved_from,
                   faulty_saves, saved_index, run, chunkVars, searchVars>>

MaxSnapshots == 2

\* the administrator replaces the content of institutional_pdfs/, once the
\* present content has been initialized
ReplaceCorpus ==
    /\ lastInit.outcome # "none"
    /\ lastInit.dir = dir
    /\ Cardinality(identified) < MaxSnapshots
    /\ \E d \in Snapshots \ {dir} : dir' = d
    /\ UNCHANGED <<now, cache_files, session, lastInit, identified, saved_from,
                   faulty_saves, saved_index, run, chunkVars, searchVars>>

CacheStart ==
    /\ now = 0
    /\ cache_files = <<>>
    /\ session = NoSession
    /\ lastInit = [outcome |-> "none", identifier |-> NoIdentifier, dir |-> {}, at |-> 0]
    /\ identified = {}
    /\ saved_from = <<>>
    /\ faulty_saves = 0
    /\ saved_index = <<>>
    /\ run = NoRun

Init ==
    /\ ChunkIdle
    /\ SearchIdle
    /\ dir \in LifecycleDirs
    /\ CacheStart

Next ==
    \/ InitializeChatbot
    \/ NewSession
    \/ Tick
    \/ ChangeCorpus

Spec == Init /\ [][Next]_vars

\* the script runs of the sessions: every run calls initialize_chatbot, with
\* the key or without it, while the administrator fills or empties the
\* directory
SessionNext ==
    \/ InitializeChatbot
    \/ ReturnStored
    \/ NewSession
    \/ ChangeCorpus

SpecSession == Init /\ [][SessionNext]_vars

\* the chunker alone, on every text of up to MaxSentences sentences
SpecChunkInit ==
    /\ ChunkInit
    /\ SearchIdle
    /\ dir = EmptyDir
    /\ CacheStart

ChunkNext == CallSmartChunkText

SpecChunk == SpecChunkInit /\ [][ChunkNext]_vars

\* the identifier and the cache over every directory content, nothing failing
SpecIdentInit ==
    /\ ChunkIdle
    /\ SearchIdle
    /\ dir \in Snapshots
    /\ CacheStart

IdentNext ==
    \/ InitializeChatbotNoFaults
    \/ NewSession
    \/ ReplaceCorpus

SpecIdent == SpecIdentInit /\ [][IdentNext]_vars

\* one directory, with every course a run of initialize_chatbot can take
SpecRunInit ==
    /\ ChunkIdle
    /\ SearchIdle
    /\ dir = DirAB
    /\ CacheStart

RunNext ==
    \/ InitializeChatbotInDetail
    \/ NewSession
    \/ Tick

SpecRun == SpecRunInit /\ [][RunNext]_vars

\* hybrid_search on every index a session can hold for the directory DirAB:
\* one that was built, or one that was loaded from a cache path saved at day
\* 0 and saved again, wholly or in part, once that entry had expired
SearchDocs ==
    {Extracted(pdf_files, readable) :
        pdf_files \in Listings(DirAB), readable \in SUBSET DirAB} \ {<<>>}

BuiltFrom(docs) ==
    create_chunks_and_embeddings([NewChatbot EXCEPT !.pdf_contents = docs], NoFailures)

BuiltIndexes == {BuiltFrom(docs).chatbot : docs \in {d \in SearchDocs : BuiltFrom(d).result}}

LoadedAfter(old, new, fault) ==
    LET identifier == Identifier(SortedFiles(DirAB))
        first == save_to_cache(NoEntry, identifier, old, 0, NoFault)
        second == save_to_cache(first, identifier, new, CACHE_DURATION_DAYS, fault)
    IN  load_from_cache(second, NewChatbot, CACHE_DURATION_DAYS)

LoadedIndexes ==
    {LoadedAfter(old, new, fault).chatbot :
        <<old, new, fault>> \in
            {x \in BuiltIndexes \X BuiltIndexes \X SaveFaults :
                LoadedAfter(x[1], x[2], x[3]).result}}

SearchIndexes == BuiltIndexes \cup LoadedIndexes

SpecSearchInit ==
    /\ ChunkIdle
    /\ dir = DirAB
    /\ now = CACHE_DURATION_DAYS
    /\ cache_files = <<>>
    /\ session \in {[chatbot_initialized |-> "True", has_chatbot |-> TRUE, chatbot |-> bot] :
                        bot \in SearchIndexes}
    /\ lastInit = [outcome |-> "none", identifier |-> NoIdentifier, dir |-> {}, at |-> 0]
    /\ identified = {}
    /\ saved_from = <<>>
    /\ faulty_saves = 0
    /\ saved_index = <<>>
    /\ run = NoRun
    /\ argsort_kind \in ArgsortKinds
    /\ search = NoSearch

SearchNext ==
    \/ HybridSearch
    \/ Rerun

SpecSearch == SpecSearchInit /\ [][SearchNext]_vars

\* initialize_chatbot where every save runs to its end
InitializeChatbotOnEntry ==
    Initialize({LoadsAtOnce}, [dir -> {Raises, LongText}], {NoFailures, FailsAt(1)},
               {NoFault})

\* the files a save of the whole of DirAB at day 0 leaves
FullEntry ==
    save_to_cache(NoEntry, Identifier(SortedFiles(DirAB)),
                  BuiltFrom([i \in 1..Len(SortedFiles(DirAB)) |->
                                SortedFiles(DirAB)[i].name]).chatbot,
                  0, NoFault)

\* a metadata file that parses and has no cached_at
WithoutCachedAt ==
    Written([identifier   |-> FullEntry.meta.data[1].identifier,
             files_count  |-> FullEntry.meta.data[1].files_count,
             chunks_count |-> FullEntry.meta.data[1].chunks_count])

\* every state of the five files of that cache path: each one as it was
\* saved, missing or unreadable, the metadata also without cached_at
EntryStates ==
    [meta             : {FullEntry.meta, Absent, Corrupt, WithoutCachedAt},
     chunks           : {FullEntry.chunks, Absent, Corrupt},
     embeddings       : {FullEntry.embeddings, Absent, Corrupt},
     tfidf_vectorizer : {FullEntry.tfidf_vectorizer, Absent, Corrupt},
     tfidf_matrix     : {FullEntry.tfidf_matrix, Absent, Corrupt}]

\* the directory DirAB, its cache path holding files in any state
SpecEntryInit ==
    /\ ChunkIdle
    /\ SearchIdle
    /\ dir = DirAB
    /\ now = 0
    /\ cache_files \in {[p \in {get_cache_path(Identifier(SortedFiles(DirAB)))} |-> entry] :
                            entry \in EntryStates}
    /\ session = NoSession
    /\ lastInit = [outcome |-> "none", identifier |-> NoIdentifier, dir |-> {}, at |-> 0]
    /\ identified = {}
    /\ saved_from = <<>>
    /\ faulty_saves = 0
    /\ saved_index = <<>>
    /\ run = NoRun

EntryNext ==
    \/ InitializeChatbotOnEntry
    \/ NewSession
    \/ Tick

SpecEntry == SpecEntryInit /\ [][EntryNext]_vars

\* ------------------------------------------------------------------ chunker claims

\* the numbers of the non-empty sentences of the input, in input order
NonEmptySentences == SelectSeq([i \in 1..Len(text) |-> i], LAMBDA i : SentLen(text[i]) > 0)

RECURSIVE ConcatCores(_)
ConcatCores(cs) == IF cs = <<>> THEN <<>> ELSE Head(cs).core \o ConcatCores(Tail(cs))

Occurrences(s, x) == Cardinality({p \in 1..Len(s) : s[p] = x})

\* the number of sentences at the head of chunk k's core that were carried
\* over from chunk k-1 (lines 287-288)
Seeded(k) == IF k = 1 THEN 0 ELSE Min(2, Len(chunks[k - 1].core))

\* a chunk's core without the sentences carried over from the chunk before it
FreshCore(k) == SubSeq(chunks[k].core, Seeded(k) + 1, Len(chunks[k].core))

RECURSIVE ConcatFresh(_)
ConcatFresh(k) == IF k > Len(chunks) THEN <<>> ELSE FreshCore(k) \o ConcatFresh(k + 1)

\* C5 (as stated): every non-empty sentence of the input is in exactly one
\* chunk's core, and the cores in chunk order give the sentences in input order.
C5_ExactlyOnce ==
    chunkPc = "done" =>
        /\ \A i \in 1..Len(text) :
              SentLen(text[i]) > 0 => Occurrences(ConcatCores(chunks), i) = 1
        /\ ConcatCores(chunks) = NonEmptySentences

\* C5 (amended): every non-empty sentence is in at least one core; each core
\* after the first starts with the last min(2, n) sentences of the core before
\* it, and without those repeated sentences the cores in chunk order give the
\* non-empty sentences in input order, each exactly once.
C5_CoversOnceAfterSeeds ==
    chunkPc = "done" =>
        /\ \A i \in 1..Len(text) :
              SentLen(text[i]) > 0 => Occurrences(ConcatCores(chunks), i) >= 1
        /\ \A k \in 2..Len(chunks) :
              /\ Len(chunks[k].core) > Seeded(k)
              /\ SubSeq(chunks[k].core, 1, Seeded(k))
                    = LastN(chunks[k - 1].core, Seeded(k))
        /\ ConcatFresh(1) = NonEmptySentences

\* a text that was split, so that sentences were carried into the next chunk
C5_Witness ==
    /\ chunkPc = "done"
    /\ Len(chunks) >= 3
    /\ \E k \in 2..Len(chunks) : Seeded(k) = 2

\* C6 (as stated): a core is at most CHUNK_SIZE characters long unless it is a
\* single sentence longer than CHUNK_SIZE.
C6_CoreWithinChunkSize ==
    chunkPc = "done" =>
        \A k \in 1..Len(chunks) :
            \/ JoinLen(text, chunks[k].core) <= CHUNK_SIZE
            \/ /\ Len(chunks[k].core) = 1
               /\ SentLen(text[chunks[k].core[1]]) > CHUNK_SIZE

\* C6 (amended): the lengths of a core's sentences, the joining spaces not
\* counted, add up to at most CHUNK_SIZE, unless the core is a single sentence
\* or is made only of the sentences carried over from the chunk before it and
\* the one sentence that caused the split.
C6_SentenceSumWithinChunkSize ==
    chunkPc = "done" =>
        \A k \in 1..Len(chunks) :
            \/ SumLen(text, chunks[k].core) <= CHUNK_SIZE
            \/ Len(chunks[k].core) = 1
            \/ k > 1 /\ Len(chunks[k].core) = Seeded(k) + 1

\* a core of several sentences, not only carried-over ones, that fills
\* CHUNK_SIZE exactly
C6_Witness ==
    /\ chunkPc = "done"
    /\ \E k \in 1..Len(chunks) :
          /\ Len(chunks[k].core) > Seeded(k) + 1
          /\ SumLen(text, chunks[k].core) = CHUNK_SIZE

\* ------------------------------------------------------------------ cache claims

\* the cache files of the identifier of the last run of initialize_chatbot;
\* a run that loaded from the cache wrote no file, so they are the files the
\* load read
LastEntry == EntryAt(cache_files, get_cache_path(lastInit.identifier))

Present(file) == file.state # "absent"

\* C1 (as stated): load_from_cache returns True only when the metadata file,
\* the chunk list, the embedding matrix, the TF-IDF vectorizer and the TF-IDF
\* matrix are all present.
C1_LoadNeedsAllFive ==
    lastInit.outcome = "loaded" =>
        \A j \in 1..Len(Artifacts) : Present(LastEntry[Artifacts[j]])

\* C1 (amended): load_from_cache returns True only when the metadata file, the
\* chunk list and the embedding matrix are present and readable; a missing
\* TF-IDF vectorizer or TF-IDF matrix file does not make it return False: with
\* valid metadata, a readable chunk list and a readable embedding matrix it
\* refits the TF-IDF index on the loaded chunks and returns True.
C1_LoadNeedsMetaChunksEmbeddings ==
    /\ lastInit.outcome = "loaded" =>
          /\ LastEntry.meta.state = "ok"
          /\ LastEntry.chunks.state = "ok"
          /\ LastEntry.embeddings.state = "ok"
    /\ \A p \in DOMAIN cache_files :
          LET entry == cache_files[p]
          IN  (/\ is_cache_valid(entry, now)
               /\ entry.chunks.state = "ok"
               /\ entry.embeddings.state = "ok"
               /\ \/ entry.tfidf_vectorizer.state = "absent"
                  \/ /\ entry.tfidf_vectorizer.state = "ok"
                     /\ entry.tfidf_matrix.state = "absent")
              => load_from_cache(entry, NewChatbot, now).result

\* a save stopped before the TF-IDF files were written, and a later run
\* loaded the entry
C1_Witness ==
    /\ lastInit.outcome = "loaded"
    /\ faulty_saves > 0
    /\ LastEntry.tfidf_vectorizer.state = "absent"
    /\ LastEntry.tfidf_matrix.state = "absent"
    /\ ~session.chatbot.tfidf_matrix.is_none

\* C2: a chatbot that is available for search has as many rows in
\* chunk_embeddings and in tfidf_matrix as it has text_chunks.
C2_RowCountsMatch ==
    session.has_chatbot =>
        /\ ~session.chatbot.chunk_embeddings.is_none
        /\ NumRows(session.chatbot.chunk_embeddings.rows)
              = NumRows(session.chatbot.text_chunks)
        /\ ~session.chatbot.tfidf_matrix.is_none
        /\ NumRows(session.chatbot.tfidf_matrix.rows)
              = NumRows(session.chatbot.text_chunks)

\* C7: load_from_cache returns True only for an entry less than
\* CACHE_DURATION_DAYS old; an entry with every artifact readable is loaded
\* while it is younger than that, and refused from that age on.
C7_ExpiredEntryIsNotLoaded ==
    /\ lastInit.outcome = "loaded" =>
          lastInit.at - LastEntry.meta.data[1].cached_at < CACHE_DURATION_DAYS
    /\ \A p \in DOMAIN cache_files :
          LET entry == cache_files[p]
          IN  (\A j \in 1..Len(Artifacts) : entry[Artifacts[j]].state = "ok") =>
                  (load_from_cache(entry, NewChatbot, now).result
                      <=> now - entry.meta.data[1].cached_at < CACHE_DURATION_DAYS)

\* an entry with every artifact readable, exactly CACHE_DURATION_DAYS old, was
\* refused by the last run, which then failed to rebuild and left it in place
C7_Witness ==
    /\ lastInit.outcome \in {"load_pdfs_failed", "build_failed"}
    /\ lastInit.at = now
    /\ \A j \in 1..Len(Artifacts) : LastEntry[Artifacts[j]].state = "ok"
    /\ now - LastEntry.meta.data[1].cached_at = CACHE_DURATION_DAYS

\* ------------------------------------------------------------------ identifier claims

\* C8: directories that differ in a file name, size or mtime have different
\* identifiers, equal directories have equal identifiers whatever order they
\* are listed in, and an entry is loaded only for the directory it was saved for.
C8_IdentifierTellsSnapshotsApart ==
    /\ \A x, y \in identified : (x.dir = y.dir) <=> (x.identifier = y.identifier)
    /\ lastInit.outcome = "loaded" =>
          saved_from[get_cache_path(lastInit.identifier)] = lastInit.dir

\* ------------------------------------------------------------------ search claims

\* index i ranks before index j: higher combined score first, equal scores in
\* ascending chunk index
RanksBefore(scores, i, j) ==
    \/ scores[i] > scores[j]
    \/ scores[i] = scores[j] /\ i < j

Selected == {search.top_indices[n] : n \in 1..Len(search.top_indices)}

\* C3: hybrid_search selects the min(13, n) chunks with the highest combined
\* score and returns them in descending order of combined score; chunks of
\* equal combined score are selected and listed in ascending chunk index.
C3_TopKDescendingTiesByIndex ==
    (search.called /\ ~search.raised /\ search.encoded) =>
        /\ Len(search.top_indices)
               = Min(SEARCH_RESULTS, Len(search.combined_scores))
        /\ \A i \in Selected, j \in DOMAIN search.combined_scores \ Selected :
               RanksBefore(search.combined_scores, i, j)
        /\ \A n \in 1..(Len(search.top_indices) - 1) :
               RanksBefore(search.combined_scores,
                           search.top_indices[n], search.top_indices[n + 1])
        /\ \A n \in 1..(Len(search.returned) - 1) :
               RanksBefore(search.combined_scores,
                           search.returned[n].index, search.returned[n + 1].index)

\* C4: hybrid_search of the empty string returns the empty list.
C4_EmptyQueryReturnsNothing ==
    (search.called /\ search.question.empty) => search.returned = <<>>

\* C9: no exception leaves hybrid_search; when encoding the question fails on
\* all MAX_RETRIES attempts the result is the empty list; a chunk is returned
\* only when the question was encoded and the scores were computed.
C9_FailuresGiveEmptyList ==
    search.called =>
        /\ ~search.escaped
        /\ search.failures >= MAX_RETRIES => search.returned = <<>>
        /\ search.returned # <<>> => search.encoded /\ ~search.raised
        /\ search.raised => search.returned = <<>>

\* encoding failed on both attempts and the call returned the empty list
C9_Witness ==
    /\ search.called
    /\ search.failures = MAX_RETRIES
    /\ search.attempts = MAX_RETRIES
    /\ ~search.encoded
    /\ ~search.escaped
    /\ search.returned = <<>>

\* C10: every returned chunk has a combined score strictly above the floor,
\* at most SEARCH_RESULTS chunks are returned, and nothing is returned when no
\* selected chunk is above the floor.
C10_ReturnedClearFloor ==
    search.called =>
        /\ \A n \in 1..Len(search.returned) : search.returned[n].combined_score > Floor
        /\ Len(search.returned) <= SEARCH_RESULTS
        /\ (\A i \in Selected : search.combined_scores[i] <= Floor)
               => search.returned = <<>>

\* of more than SEARCH_RESULTS chunks, SEARCH_RESULTS were selected, one of
\* them scoring exactly the floor was dropped and the others were returned
C10_Witness ==
    /\ search.called
    /\ Len(search.combined_scores) > SEARCH_RESULTS
    /\ Len(search.top_indices) = SEARCH_RESULTS
    /\ \E i \in Selected :
          /\ search.combined_scores[i] = Floor
          /\ \A n \in 1..Len(search.returned) : search.returned[n].index # i
    /\ search.returned # <<>>

\* the cosine similarity of the question to the chunk of index i, rescaled from
\* [-1, 1] to [0, 1], in hundredths times 2
RescaledTwice(i) == SemanticScores(session.chatbot, search.question)[i] + 100

\* C11: on every returned chunk the reported semantic_score is the cosine
\* similarity rescaled by (score + 1) / 2, and the reported combined_score is
\* 0.7 * semantic_score + 0.3 * keyword_score of the fields reported on that
\* same chunk.
C11_ReportedScoresAgree ==
    search.called =>
        \A n \in 1..Len(search.returned) :
            LET chunk == search.returned[n]
            IN  /\ 2 * chunk.semantic_score = RescaledTwice(chunk.index)
                /\ chunk.combined_score
                       = 2 * SEMANTIC_WEIGHT * chunk.semantic_score
                             + 2 * KEYWORD_WEIGHT * chunk.keyword_score

\* ------------------------------------------------------------------ chunker claims, continued

\* C16: every chunk after the first begins with a non-empty prefix, the last
\* min(CHUNK_OVERLAP // 5, n) words of the full text (prefix included) of the
\* chunk emitted just before it, n being that text's number of words; the
\* first chunk has no prefix.
C16_PrefixFromPredecessorText ==
    chunkPc = "done" =>
        /\ chunks # <<>> => chunks[1].prefix = <<>>
        /\ \A k \in 2..Len(chunks) :
               LET prev_words == chunks[k - 1].prefix \o JoinWords(text, chunks[k - 1].core)
                   n == Len(prev_words)
               IN  /\ chunks[k].prefix # <<>>
                   /\ chunks[k].prefix
                          = SubSeq(prev_words, n - Min(30, n) + 1, n)

\* a third chunk whose prefix is longer than the core of the second: words of
\* the second chunk's own prefix went into it
C16_Witness ==
    /\ chunkPc = "done"
    /\ Len(chunks) >= 3
    /\ Len(chunks[3].prefix) > Len(JoinWords(text, chunks[2].core))
    /\ Len(chunks[3].prefix) < 30

\* the numbers of the sentences that are not empty after strip()
NonEmpty == {i \in 1..Len(text) : SentLen(text[i]) > 0}

\* sentence number i is longer than CHUNK_SIZE
Oversize(i) == SentLen(text[i]) > CHUNK_SIZE

\* the chunks whose core ends with sentence number i
EndingWith(i) == {k \in 1..Len(chunks) : chunks[k].core[Len(chunks[k].core)] = i}

\* C17 as stated: the core of a chunk is a list of whole sentences of the
\* input in their order; a text without a non-empty sentence gives no chunk;
\* a sentence longer than CHUNK_SIZE is the whole core of some chunk.
C17_OversizeSentenceAlone ==
    chunkPc = "done" =>
        /\ \A k \in 1..Len(chunks) :
               /\ chunks[k].core # <<>>
               /\ \A n \in 1..Len(chunks[k].core) :
                      /\ chunks[k].core[n] \in NonEmpty
                      /\ n > 1 => chunks[k].core[n - 1] < chunks[k].core[n]
        /\ NonEmpty = {} => chunks = <<>>
        /\ \A i \in NonEmpty :
               Oversize(i) => \E k \in 1..Len(chunks) : chunks[k].core = <<i>>

\* C17, amended: whole sentences and no chunk for an empty text, as above; a
\* sentence longer than CHUNK_SIZE is the whole core of a chunk exactly when
\* it is the first non-empty sentence of the text, and otherwise it closes
\* the running chunk and is emitted as the last sentence of a core that holds
\* before it only the one or two sentences seeded from the chunk closed.
C17_OversizeSentenceAfterSeeds ==
    chunkPc = "done" =>
        /\ \A k \in 1..Len(chunks) :
               /\ chunks[k].core # <<>>
               /\ \A n \in 1..Len(chunks[k].core) :
                      /\ chunks[k].core[n] \in NonEmpty
                      /\ n > 1 => chunks[k].core[n - 1] < chunks[k].core[n]
        /\ NonEmpty = {} => chunks = <<>>
        /\ \A i \in NonEmpty :
               Oversize(i) =>
                   IF \A j \in NonEmpty : i <= j
                   THEN chunks[1].core = <<i>>
                   ELSE /\ \A k \in 1..Len(chunks) : chunks[k].core # <<i>>
                        /\ \E k \in EndingWith(i) :
                              /\ k > 1
                              /\ Len(chunks[k].core) \in {2, 3}
                              /\ \A n \in 1..(Len(chunks[k].core) - 1) :
                                     \E m \in 1..Len(chunks[k - 1].core) :
                                         chunks[k - 1].core[m] = chunks[k].core[n]

\* an oversize sentence that is not the first: it is emitted behind two seeds
C17_Witness ==
    /\ chunkPc = "done"
    /\ \E i \in NonEmpty :
          /\ Oversize(i)
          /\ \E j \in NonEmpty : j < i
          /\ \E k \in EndingWith(i) : Len(chunks[k].core) = 3

\* the first non-empty sentence after sentence number i, 0 when there is none
NextSentence(i) ==
    IF \E j \in NonEmpty : j > i
    THEN CHOOSE j \in NonEmpty : j > i /\ \A m \in NonEmpty : m > i => j <= m
    ELSE 0

LastOf(core) == core[Len(core)]

\* the running chunk took sentence core[m + 1] without closing: the lengths
\* of the m sentences it held and of that sentence are within CHUNK_SIZE
TookWithoutClosing(core, m) ==
    SumLen(text, SubSeq(core, 1, m)) + SentLen(text[core[m + 1]]) <= CHUNK_SIZE

\* C19: a chunk is closed when the lengths of its sentences and of the next
\* sentence exceed CHUNK_SIZE; the chunk after it starts as the last
\* min(2, n) sentences of the closed one followed by that next sentence, and
\* takes further sentences while the sum of the lengths of all its sentences,
\* seeds included, stays within CHUNK_SIZE; the last running chunk is emitted.
C19_SeededContinuation ==
    chunkPc = "done" =>
        /\ NonEmpty # {} =>
               /\ chunks # <<>>
               /\ NextSentence(LastOf(chunks[Len(chunks)].core)) = 0
               /\ chunks[1].core[1] = NextSentence(0)
        /\ \A k \in 1..Len(chunks) :
               LET core == chunks[k].core
                   seeded == IF k = 1 THEN 1
                             ELSE Min(2, Len(chunks[k - 1].core)) + 1
               IN  /\ Len(core) >= seeded
                   /\ \A m \in seeded..(Len(core) - 1) :
                          /\ core[m + 1] = NextSentence(core[m])
                          /\ TookWithoutClosing(core, m)
        /\ \A k \in 1..(Len(chunks) - 1) :
               LET closed == chunks[k].core
                   n == Len(closed)
                   sentence == NextSentence(LastOf(closed))
               IN  /\ sentence # 0
                   /\ SumLen(text, closed) + SentLen(text[sentence]) > CHUNK_SIZE
                   /\ SubSeq(chunks[k + 1].core, 1, Min(2, n) + 1)
                          = SubSeq(closed, n - Min(2, n) + 1, n) \o <<sentence>>

\* a chunk of three sentences was closed and the chunk after it holds two
\* seeds, the sentence that closed it and one sentence more
C19_Witness ==
    /\ chunkPc = "done"
    /\ Len(chunks) = 2
    /\ Len(chunks[1].core) = 3
    /\ Len(chunks[2].core) = 4

\* ------------------------------------------------------------------ run claims

\* the step of the last run that called `call`, 0 when it made no such call
StepOf(call) ==
    IF \E n \in 1..Len(run.steps) : run.steps[n].call = call
    THEN CHOOSE n \in 1..Len(run.steps) : run.steps[n].call = call
    ELSE 0

Called(call) == StepOf(call) # 0

Returned(call, result) == Called(call) /\ run.steps[StepOf(call)].result = result

\* the number of chunks of the documents of pdf_contents in the last run
ChunksOfRun == CountChunks(run.pdf_contents)

\* C12: in a build, encode is called at least once and at most MAX_RETRIES
\* times for each batch it reaches, the batches hold at most BATCH_SIZE texts
\* each, and when every call for some batch fails the build returns False,
\* leaves chunk_embeddings unassigned, encodes no later batch and is followed
\* by no save: the cache files stay as they were.
C12_BatchFailureFailsTheBuild ==
    /\ [](Called("create_chunks_and_embeddings") =>
            LET calls == run.encode_calls
            IN  /\ \A b \in 1..Len(calls) : calls[b] \in 1..MAX_RETRIES
                /\ Len(calls) * BATCH_SIZE < ChunksOfRun + BATCH_SIZE
                /\ Returned("create_chunks_and_embeddings", "True") =>
                       /\ Len(calls) * BATCH_SIZE >= ChunksOfRun
                       /\ ~run.chunk_embeddings.is_none
                /\ Returned("create_chunks_and_embeddings", "False") =>
                       /\ calls # <<>>
                       /\ calls[Len(calls)] = MAX_RETRIES
                       /\ run.chunk_embeddings.is_none
                       /\ ~Called("save_to_cache")
                       /\ lastInit.outcome = "build_failed")
    /\ [][lastInit'.outcome = "build_failed" => cache_files' = cache_files]_vars

\* a build of two batches: the first was encoded at the second call, every
\* call for the second failed, and an entry saved earlier is still there
C12_Witness ==
    /\ run.encode_calls = <<MAX_RETRIES, MAX_RETRIES>>
    /\ Returned("create_chunks_and_embeddings", "False")
    /\ lastInit.at = now
    /\ get_cache_path(lastInit.identifier) \in DOMAIN cache_files

\* C20: _load_embedding_model ends after at most MAX_RETRIES attempts to load
\* the primary model and at most one attempt, made after those, to load the
\* fallback model, with a model or None; when it returns None the run ends
\* there: no cache read, extraction, build or save follows, and neither the
\* cache files nor the session are changed.
C20_ModelLoadEndsAndStops ==
    /\ [](run.steps # <<>> =>
            /\ run.steps[1].call = "_load_embedding_model"
            /\ run.model.model \in {"primary", "fallback", "none"}
            /\ run.model.primary_attempts \in 1..MAX_RETRIES
            /\ run.model.fallback_attempts \in 0..1
            /\ run.model.fallback_attempts = 1 =>
                   run.model.primary_attempts = MAX_RETRIES
            /\ run.model.model = "fallback" => run.model.fallback_attempts = 1
            /\ run.model.model = "none" =>
                   /\ run.steps = <<Step("_load_embedding_model", "None")>>
                   /\ run.extraction = <<>>
                   /\ run.encode_calls = <<>>
                   /\ lastInit.outcome = "stopped")
    /\ [][(run' # run \/ lastInit' # lastInit) /\ lastInit'.outcome = "stopped" =>
              /\ cache_files' = cache_files
              /\ session' = session
              /\ run'.model.model = "none"]_vars

\* both attempts for the primary model and the one for the fallback model
\* failed, with an entry in the cache that was left alone
C20_Witness ==
    /\ run.model = [model |-> "none", primary_attempts |-> MAX_RETRIES,
                    fallback_attempts |-> 1]
    /\ lastInit.outcome = "stopped"
    /\ lastInit.at = now
    /\ cache_files # <<>>
    /\ session = NoSession

\* the names of the files whose extraction, in the last run, raised or gave a
\* text of at most 100 characters
Unusable ==
    {f.name : f \in {g \in DOMAIN run.extraction :
                        run.extraction[g].raised \/ run.extraction[g].length <= 100}}

Usable == {f.name : f \in DOMAIN run.extraction} \ Unusable

InPdfContents == {run.pdf_contents[n] : n \in 1..Len(run.pdf_contents)}

\* C15 as stated: the unusable files are left out of pdf_contents, and the
\* run goes on to build from the others; it does not fail unless something
\* other than an extraction fails.
C15_ExtractionNeverFailsTheRun ==
    Called("load_institutional_pdfs") =>
        /\ InPdfContents = Usable
        /\ Called("create_chunks_and_embeddings")
        /\ lastInit.outcome # "load_pdfs_failed"

\* C15, amended: the unusable files are left out of pdf_contents and every
\* other file is in it once; when at least one file is usable the run goes on
\* to build from those and no more, and when none is, load_institutional_pdfs
\* returns False and the run fails without a build.
C15_ExtractionFailsTheRunWhenNothingIsLeft ==
    Called("load_institutional_pdfs") =>
        /\ InPdfContents = Usable
        /\ Len(run.pdf_contents) = Cardinality(Usable)
        /\ Usable # {} =>
               /\ Returned("load_institutional_pdfs", "True")
               /\ Called("create_chunks_and_embeddings")
               /\ Len(run.encode_calls) <= NumBatches(ChunksOfRun)
               /\ lastInit.outcome \in {"built", "build_failed"}
               /\ (lastInit.outcome = "built" /\ session.has_chatbot) =>
                      /\ session.chatbot.pdf_contents = run.pdf_contents
                      /\ session.chatbot.text_chunks = ChunkList(run.pdf_contents)
        /\ Usable = {} =>
               /\ Returned("load_institutional_pdfs", "False")
               /\ ~Called("create_chunks_and_embeddings")
               /\ ~Called("save_to_cache")
               /\ lastInit.outcome = "load_pdfs_failed"

\* the extraction of one file raised, the other file gave more than 100
\* characters and the index was built from it alone
C15_Witness ==
    /\ lastInit.outcome = "built"
    /\ session.has_chatbot
    /\ Cardinality(Unusable) = 1
    /\ \E f \in DOMAIN run.extraction : run.extraction[f].raised
    /\ Len(session.chatbot.pdf_contents) = 1

\* ------------------------------------------------------------------ cache claims, continued

\* the files of the cache path of the directory, before the step
EntryOfDir == EntryAt(cache_files, get_cache_path(Identifier(SortedFiles(dir))))

\* no metadata file, unparsable metadata, no cached_at, an expired entry, or
\* a missing or unreadable chunk list or embedding matrix
Unusable13(entry) ==
    \/ entry.meta.state # "ok"
    \/ "cached_at" \notin DOMAIN entry.meta.data[1]
    \/ now - entry.meta.data[1].cached_at >= CACHE_DURATION_DAYS
    \/ entry.chunks.state # "ok"
    \/ entry.embeddings.state # "ok"

\* C13: whatever the state of the cache files (no metadata file, unparsable
\* metadata, no cached_at, expired entry, missing or unreadable chunk list or
\* embedding matrix), load_from_cache returns False and the run goes on to
\* load_institutional_pdfs and, with documents, to create_chunks_and_embeddings;
\* the index it builds is the one a new chatbot builds from those documents.
C13_UnusableEntryIsRebuilt ==
    /\ [][((run' # run \/ lastInit' # lastInit) /\ Len(run'.steps) >= 2
              /\ Unusable13(EntryOfDir)) =>
             /\ run'.steps[2] = Step("load_from_cache", "False")
             /\ Len(run'.steps) >= 3
             /\ run'.steps[3].call = "load_institutional_pdfs"]_vars
    /\ [](Returned("load_from_cache", "False") =>
             /\ StepOf("load_institutional_pdfs") = 3
             /\ run.pdf_contents # <<>> => StepOf("create_chunks_and_embeddings") = 4
             /\ (lastInit.outcome = "built" /\ session.has_chatbot) =>
                    session.chatbot = BuiltFrom(run.pdf_contents).chatbot)

\* day 45: the entry of day 0 had not expired but could not be loaded; the
\* index was rebuilt from the documents and saved
C13_Witness ==
    /\ Returned("load_from_cache", "False")
    /\ lastInit.outcome = "built"
    /\ lastInit.at = 45
    /\ now = 45
    /\ session.has_chatbot
    /\ EntryOfDir.meta.data[1].cached_at = 45

\* questions whose scores tell the chunks of the two semantic classes and of
\* the two keyword classes apart
FixedQueries ==
    {q \in Queries : /\ ~q.empty
                     /\ q.cos[0] = 100 /\ q.cos[1] \in {-58, 0}
                     /\ q.kw[0] = 50 /\ q.kw[1] \in {0, 1}}

\* the script run is one of initialize_chatbot that got as far as the
\* identifier of the directory
InitializeRan ==
    /\ session.chatbot_initialized = "absent"
    /\ session' # session \/ lastInit' # lastInit \/ run' # run
    /\ lastInit'.identifier # NoIdentifier

\* the index was restored as it was saved: the four attributes row for row,
\* and with them the answers of hybrid_search
RestoredAs(loaded, saved) ==
    /\ loaded.text_chunks = saved.text_chunks
    /\ Rows(loaded.text_chunks) = Rows(saved.text_chunks)
    /\ loaded.chunk_embeddings = saved.chunk_embeddings
    /\ loaded.tfidf_vectorizer = saved.tfidf_vectorizer
    /\ ~loaded.tfidf_matrix.is_none
    /\ loaded.tfidf_matrix.rows = saved.tfidf_matrix.rows
    /\ loaded.tfidf_matrix.vocabulary = saved.tfidf_matrix.vocabulary
    /\ \A q \in FixedQueries, kind \in ArgsortKinds :
          /\ SemanticScores(loaded, q) = SemanticScores(saved, q)
          /\ KeywordScores(loaded, q) = KeywordScores(saved, q)
          /\ hybrid_search(loaded, q, 0, kind) = hybrid_search(saved, q, 0, kind)

PathOfRun == get_cache_path(lastInit.identifier)

Expired(entry) ==
    \E cached_at \in CachedAt(entry) : now - cached_at >= CACHE_DURATION_DAYS

\* C18: save_to_cache is called only directly after create_chunks_and_embeddings
\* returned True in the same initialization and a load_from_cache that returned
\* True writes no cache file; so cached_at changes only when a build is saved,
\* an entry that is loaded is less than 90 days older than the build that wrote
\* its cached_at, and the first initialization that finds it expired takes the
\* rebuild path and, its build saved, has overwritten the entry.
C18_OnlyBuildsWriteTheCache ==
    /\ [](\A i \in DOMAIN run.steps :
             run.steps[i].call = "save_to_cache" =>
                 /\ i > 1
                 /\ run.steps[i - 1] = Step("create_chunks_and_embeddings", "True"))
    /\ [][cache_files' # cache_files =>
             /\ InitializeRan
             /\ lastInit'.outcome = "built"
             /\ run'.steps[Len(run'.steps)].call = "save_to_cache"
             /\ \A p \in DOMAIN cache_files' :
                    EntryAt(cache_files, p) # cache_files'[p] =>
                        /\ p = get_cache_path(lastInit'.identifier)
                        /\ CachedAt(cache_files'[p]) \subseteq
                               CachedAt(EntryAt(cache_files, p)) \cup {now}]_vars
    /\ [][(InitializeRan /\ lastInit'.outcome = "loaded") =>
             /\ cache_files' = cache_files
             /\ \E cached_at \in CachedAt(EntryOfDir) :
                    now - cached_at < CACHE_DURATION_DAYS]_vars
    /\ [][(InitializeRan /\ Len(run'.steps) >= 2 /\ Expired(EntryOfDir)) =>
             /\ run'.steps[2] = Step("load_from_cache", "False")
             /\ run'.steps[3].call = "load_institutional_pdfs"
             /\ (lastInit'.outcome = "built"
                   /\ saved_index'[get_cache_path(lastInit'.identifier)].complete) =>
                    cache_files'[get_cache_path(lastInit'.identifier)] =
                        save_to_cache(NoEntry, lastInit'.identifier, session'.chatbot,
                                      now, NoFault)]_vars

\* day 90: the entry written on day 0 was found expired, the index was rebuilt
\* and the entry written again
C18_Witness ==
    /\ now = 90
    /\ lastInit.outcome = "built"
    /\ lastInit.at = 90
    /\ run.steps[2] = Step("load_from_cache", "False")
    /\ PathOfRun \in DOMAIN saved_index
    /\ saved_index[PathOfRun].replaced = {0}
    /\ saved_index[PathOfRun].complete
    /\ CachedAt(EntryAt(cache_files, PathOfRun)) = {90}

\* ------------------------------------------------------------------ session claims

\* the step is a call of initialize_chatbot that is seen in the records
Call == lastInit' # lastInit \/ run' # run

FailedOutcomes == {"build_failed", "load_pdfs_failed"}

Searched == ~search.called /\ search'.called

====
